---- MODULE Spec2Model ----
(***************************************************************************)
(* Model of cni-basic: the persistent IP pool of pkg/ippool.go and the     *)
(* plugin invocation of main.go.                                           *)
(*                                                                         *)
(* Strings that the code parses (pool name, CIDR range, subnet, gateway)   *)
(* are records that say what text they hold, so that net.ParseCIDR and     *)
(* net.ParseIP are modelled by what they accept and not as the identity.   *)
(* An IP (net.IP) is a tuple of bytes; the nil IP is the empty tuple.      *)
(* The allocation byte slice is kept as its length and the set of indices  *)
(* that hold 1, so that a pool of 2^24 - 3 slots is representable.         *)
(***************************************************************************)
EXTENDS Integers, Sequences, FiniteSets, TLC

\* ---------------------------------------------------------------- bounds
\* AllocateIP is explored while fewer than MaxMarked slots are marked
\* (or the pool is full, so that exhaustion is always explored).
MaxMarked == 3

\* --------------------------------------------------------------- strings
EmptyStr == [kind |-> "empty", net |-> <<>>, host |-> 0, ones |-> 0, id |-> ""]
\* a dotted quad "a.b.c.h"
IpStr(n, h) == [kind |-> "ip", net |-> n, host |-> h, ones |-> 0, id |-> ""]
\* "a.b.c.h/ones"
CidrStr(n, h, o) == [kind |-> "cidr", net |-> n, host |-> h, ones |-> o, id |-> ""]
\* any other non-empty text without a slash
NameStr(s) == [kind |-> "name", net |-> <<>>, host |-> 0, ones |-> 0, id |-> s]
\* the decimal text of a number (a path component such as "24")
NumStr(k) == [kind |-> "num", net |-> <<>>, host |-> 0, ones |-> k, id |-> ""]

NetA == <<10, 0, 0>>
NetB == <<192, 168, 5>>

\* the nil net.IP
NilIP == <<>>

\* net.ParseIP: a dotted quad and nothing else; a text with "/" gives nil
ParseIP(s) == IF s.kind = "ip" THEN s.net \o <<s.host>> ELSE NilIP

\* net.IP.To4 (only IPv4 and nil values occur)
To4(ip) == IF Len(ip) = 4 THEN ip ELSE NilIP

\* net.ParseCIDR: needs "addr/len" with 0 <= len <= 32; returns the mask size
ParseCIDR(s) ==
    IF s.kind = "cidr" /\ s.ones \in 0..32
    THEN [ok |-> TRUE, ones |-> s.ones]
    ELSE [ok |-> FALSE, ones |-> 0]

RECURSIVE Pow2(_)
Pow2(n) == IF n = 0 THEN 1 ELSE 2 * Pow2(n - 1)

\* ------------------------------------------------------------ file system
\* A path is the sequence of its components; "" is the empty sequence.
\* The pool file is Path + "/" + PoolName + ".json": a pool name that holds a
\* slash ("10.0.0.0/24") names a file inside a sub-directory of Path.
NameComponents(name) ==
    IF name.kind = "cidr"
    THEN <<IpStr(name.net, name.host), NumStr(name.ones)>>
    ELSE <<name>>

PoolFile(path, name) == path \o NameComponents(name)

ParentDir(file) == SubSeq(file, 1, Len(file) - 1)

\* os.MkdirAll creates the directory and every missing ancestor
MkdirAll(ds, path) == ds \cup {SubSeq(path, 1, k) : k \in 0..Len(path)}

\* ------------------------------------------------------------------ pool
NoPool == [PoolName |-> EmptyStr, CidrRange |-> EmptyStr, Path |-> <<>>,
           Gateway |-> 0, TotalIps |-> 0, LastAllocatedIP |-> 0,
           Allocation |-> [len |-> 0, set |-> {}]]

\* TotalIps as NewIpPool computes it from the mask size
TotalIpsOf(size) == Pow2(size) - 3

\* NewIpPool: status "fatal" is log.Fatalf (exit status 1, nothing on
\* stdout), "panic" is make([]byte, n) with n < 0.  mkdir tells whether
\* os.MkdirAll(path) was reached.
NewIpPool(poolName, cidrRange, path) ==
    LET cidr == ParseCIDR(cidrRange)
        total == TotalIpsOf(cidr.ones)
    IN  IF poolName = EmptyStr \/ cidrRange = EmptyStr \/ path = <<>>
        THEN [status |-> "fatal", mkdir |-> FALSE, pool |-> NoPool]
        ELSE IF ~cidr.ok
        THEN [status |-> "fatal", mkdir |-> FALSE, pool |-> NoPool]
        ELSE IF total < 0
        THEN [status |-> "panic", mkdir |-> TRUE, pool |-> NoPool]
        ELSE [status |-> "ok", mkdir |-> TRUE,
              pool |-> [PoolName |-> poolName, CidrRange |-> cidrRange,
                        Path |-> path, Gateway |-> 0, TotalIps |-> total,
                        LastAllocatedIP |-> 0,
                        Allocation |-> [len |-> total, set |-> {}]]]

Max(S) == CHOOSE x \in S : \A y \in S : y <= x
Min(S) == CHOOSE x \in S : \A y \in S : x <= y

\* ip[3] += byte(i + 1): byte arithmetic, modulo 256
AddHost(ip, i) == [ip EXCEPT ![4] = (ip[4] + ((i + 1) % 256)) % 256]

\* free slots the reverse loop visits: LastAllocatedIP down to 0
\* (LastAllocatedIP < TotalIps = len here, so every index is in range)
ReverseFree(p) == {i \in 0..p.LastAllocatedIP : i \notin p.Allocation.set}

\* free slots the forward loop visits: LastAllocatedIP + 1 up to TotalIps - 1.
\* The lowest free slot above LastAllocatedIP is at most Cardinality(set)
\* slots away, so only that window is enumerated.
ForwardFree(p) ==
    {i \in (p.LastAllocatedIP + 1) ..
           (p.LastAllocatedIP + 1 + Cardinality(p.Allocation.set)) :
        i < p.TotalIps /\ i \notin p.Allocation.set}

Mark(p, i) == [p EXCEPT !.Allocation.set = @ \cup {i}]

\* AllocateIP: the returned record holds the pool after the call, the error
\* ("" for nil) and the returned IP (NilIP with an error)
AllocateIP(p) ==
    IF p.LastAllocatedIP >= p.TotalIps
    THEN [pool |-> p, err |-> "no more IPs", ip |-> NilIP, idx |-> -1]
    ELSE IF ReverseFree(p) # {}
    THEN LET i == Max(ReverseFree(p))
             ip == To4(ParseIP(p.CidrRange))
         IN  IF ip = NilIP
             THEN [pool |-> Mark(p, i), err |-> "invalid CIDR range",
                   ip |-> NilIP, idx |-> i]
             ELSE [pool |-> Mark(p, i), err |-> "", ip |-> AddHost(ip, i), idx |-> i]
    ELSE IF ForwardFree(p) # {}
    THEN LET i == Min(ForwardFree(p))
             q == [Mark(p, i) EXCEPT !.LastAllocatedIP = i]
             ip == To4(ParseIP(p.CidrRange))
         IN  IF ip = NilIP
             THEN [pool |-> q, err |-> "invalid CIDR range", ip |-> NilIP, idx |-> i]
             ELSE [pool |-> q, err |-> "", ip |-> AddHost(ip, i), idx |-> i]
    ELSE [pool |-> p, err |-> "no available IPs", ip |-> NilIP, idx |-> -1]

\* ReleaseIP that never walks LastAllocatedIP down
ReleaseIPKeepsHighWater(p, ip) ==
    LET ip4 == To4(ip)
        index == ip4[4] - 1
    IN  IF ip = NilIP THEN [pool |-> p, err |-> "IP cannot be nil"]
        ELSE IF ip4 = NilIP THEN [pool |-> p, err |-> "not a valid IPv4 address"]
        ELSE IF index < 0 \/ index >= p.TotalIps
        THEN [pool |-> p, err |-> "out of range"]
        ELSE IF index \notin p.Allocation.set
        THEN [pool |-> p, err |-> "not allocated"]
        ELSE [pool |-> [p EXCEPT !.Allocation.set = @ \ {index}], err |-> ""]

\* ReleaseIP: the pool after the call and the error ("" for nil).  lower is
\* what the walk from LastAllocatedIP - 1 down to 0 can stop at.
ReleaseIP(p, ip) ==
    LET ip4 == To4(ip)
        index == ip4[4] - 1
        lower == {i \in 0..(p.LastAllocatedIP - 1) : i \in p.Allocation.set}
    IN  IF ip = NilIP THEN [pool |-> p, err |-> "IP cannot be nil"]
        ELSE IF ip4 = NilIP THEN [pool |-> p, err |-> "not a valid IPv4 address"]
        ELSE IF index < 0 \/ index >= p.TotalIps
        THEN [pool |-> p, err |-> "out of range"]
        ELSE IF index \notin p.Allocation.set
        THEN [pool |-> p, err |-> "not allocated"]
        ELSE IF index = p.LastAllocatedIP /\ lower # {}
        THEN [pool |-> [p EXCEPT !.Allocation.set = @ \ {index},
                                 !.LastAllocatedIP = Max(lower)],
              err |-> ""]
        ELSE [pool |-> [p EXCEPT !.Allocation.set = @ \ {index}], err |-> ""]

\* ---------------------------------------------------- Save and Load (JSON)
\* json.Marshal of the pool: "gateway" and "allocation" carry omitempty, so a
\* zero gateway and an empty slice are left out of the document.
Marshal(p) ==
    [exists |-> TRUE,
     pool_name |-> p.PoolName, cidr_range |-> p.CidrRange, path |-> p.Path,
     hasGateway |-> p.Gateway # 0, gateway |-> p.Gateway,
     total_ips |-> p.TotalIps, last_allocated_ip |-> p.LastAllocatedIP,
     hasAllocation |-> p.Allocation.len # 0, allocation |-> p.Allocation]

\* Unmarshal with the allocation key not matched to the field: the object
\* keeps the slice it had
UnmarshalKeepsAllocation(doc, p) ==
    [PoolName |-> doc.pool_name, CidrRange |-> doc.cidr_range, Path |-> doc.path,
     Gateway |-> IF doc.hasGateway THEN doc.gateway ELSE p.Gateway,
     TotalIps |-> doc.total_ips, LastAllocatedIP |-> doc.last_allocated_ip,
     Allocation |-> p.Allocation]

\* json.Unmarshal into the existing object: a key that is absent from the
\* document leaves the field as it was
Unmarshal(doc, p) ==
    [PoolName |-> doc.pool_name, CidrRange |-> doc.cidr_range, Path |-> doc.path,
     Gateway |-> IF doc.hasGateway THEN doc.gateway ELSE p.Gateway,
     TotalIps |-> doc.total_ips, LastAllocatedIP |-> doc.last_allocated_ip,
     Allocation |-> IF doc.hasAllocation THEN doc.allocation ELSE p.Allocation]

\* The files that exist, as a function from file to content.
\* Save: os.WriteFile creates or truncates the file; it fails when the
\* directory that should hold the file does not exist
Save(p, fs, ds) ==
    LET file == PoolFile(p.Path, p.PoolName)
    IN  IF ParentDir(file) \in ds
        THEN [files |-> [f \in DOMAIN fs \cup {file} |->
                            IF f = file THEN Marshal(p) ELSE fs[f]],
              err |-> ""]
        ELSE [files |-> fs, err |-> "failed to write data to file"]

\* Load: os.ReadFile fails when the file does not exist
Load(p, fs) ==
    LET file == PoolFile(p.Path, p.PoolName)
    IN  IF file \in DOMAIN fs
        THEN [pool |-> Unmarshal(fs[file], p), err |-> ""]
        ELSE [pool |-> p, err |-> "failed to read IP pool data"]

\* ------------------------------------------------- kernel links (netlink)
\* The links of the kernel are a sequence; a link's index is its position.
\* A link lives in a namespace, HostNs being the one the plugin runs in.
\* Link names are sequences of text pieces: <<"cni0">>, <<"veth-", "a", ...>>.
NoLink == 0

HostNs == <<"host">>

\* netlink.LinkByName in the plugin's namespace: the index, or NoLink with
\* a "Link not found" error
LinkByName(lk, name) ==
    LET found == {i \in 1..Len(lk) : lk[i].ns = HostNs /\ lk[i].name = name}
    IN  IF found = {} THEN NoLink ELSE Min(found)

NewLink(name, kind, mtu, peer) ==
    [name |-> name, kind |-> kind, ns |-> HostNs, mtu |-> mtu, up |-> FALSE,
     master |-> NoLink, peer |-> peer, addrs |-> {}]

\* netlink.LinkAdd of a veth pair: both names must be unused in the namespace
LinkAddVeth(lk, name, peerName, mtu) ==
    IF name = peerName \/ LinkByName(lk, name) # NoLink
                       \/ LinkByName(lk, peerName) # NoLink
    THEN [links |-> lk, err |-> "file exists"]
    ELSE [links |-> lk \o <<NewLink(name, "veth", mtu, Len(lk) + 2),
                            NewLink(peerName, "veth", mtu, Len(lk) + 1)>>,
          err |-> ""]

\* the namespace the kernel finds for a process id
NsOfPid(pid) == <<"pid", pid>>

\* netlink.LinkSetNsPid: moves the link into the namespace of process pid.
\* found says whether the kernel finds that process; a nil link panics in
\* link.Attrs().
LinkSetNsPid(lk, i, pid, found) ==
    IF i = NoLink THEN [links |-> lk, err |-> "panic"]
    ELSE IF lk[i].ns # HostNs THEN [links |-> lk, err |-> "no such device"]
    ELSE IF ~found THEN [links |-> lk, err |-> "no such process"]
    ELSE IF \E j \in 1..Len(lk) : lk[j].ns = NsOfPid(pid) /\ lk[j].name = lk[i].name
    THEN [links |-> lk, err |-> "file exists"]
    ELSE [links |-> [lk EXCEPT ![i].ns = NsOfPid(pid), ![i].up = FALSE], err |-> ""]

\* netlink.LinkSetMaster: the link becomes a port of the bridge
LinkSetMaster(lk, i, m) ==
    IF i = NoLink \/ m = NoLink THEN [links |-> lk, err |-> "panic"]
    ELSE IF lk[i].ns # HostNs \/ lk[m].ns # HostNs
    THEN [links |-> lk, err |-> "no such device"]
    ELSE IF lk[m].kind # "bridge" THEN [links |-> lk, err |-> "not a bridge"]
    ELSE [links |-> [lk EXCEPT ![i].master = m], err |-> ""]

\* netlink.LinkSetUp: addressed by index in the plugin's namespace
LinkSetUp(lk, i) ==
    IF i = NoLink THEN [links |-> lk, err |-> "panic"]
    ELSE IF lk[i].ns # HostNs THEN [links |-> lk, err |-> "no such device"]
    ELSE [links |-> [lk EXCEPT ![i].up = TRUE], err |-> ""]

\* netlink.AddrAdd: an address the link already carries is refused
AddrAdd(lk, i, addr) ==
    IF i = NoLink THEN [links |-> lk, err |-> "panic"]
    ELSE IF lk[i].ns # HostNs THEN [links |-> lk, err |-> "no such device"]
    ELSE IF addr \in lk[i].addrs THEN [links |-> lk, err |-> "file exists"]
    ELSE [links |-> [lk EXCEPT ![i].addrs = @ \cup {addr}], err |-> ""]

\* ------------------------------------------------------------ invocation
DEFAULT_MTU == 1500

DefaultBridge == <<"cni0">>

\* parseConfig: the JSON document on stdin, with the two defaults
parseConfig(doc) ==
    [ok |-> doc.ok,
     CNIVersion |-> doc.cniVersion,
     Bridge |-> IF doc.bridge = <<>> THEN DefaultBridge ELSE doc.bridge,
     Subnet |-> doc.subnet, Gateway |-> doc.gateway,
     MTU |-> IF doc.mtu = 0 THEN DEFAULT_MTU ELSE doc.mtu]

\* getEnvironment: PID is not read from anywhere and stays 0
getEnvironment(inv) ==
    [Command |-> inv.Command, ContainerID |-> inv.ContainerID,
     NetNS |-> inv.NetNS, IfName |-> inv.IfName, Path |-> inv.Path, PID |-> 0]

\* validateEnvironment asking every command for the three variables
validateEnvironmentOfAllCommands(env) ==
    IF env.Command = "" THEN "CNI_COMMAND not set"
    ELSE IF env.ContainerID = <<>> THEN "CNI_CONTAINERID not set"
    ELSE IF env.NetNS = "" THEN "CNI_NETNS not set"
    ELSE IF env.IfName = <<>> THEN "CNI_IFNAME not set"
    ELSE ""

\* validateEnvironment: "" for nil
validateEnvironment(env) ==
    IF env.Command = "" THEN "CNI_COMMAND not set"
    ELSE IF env.Command # "VERSION" /\ env.ContainerID = <<>>
    THEN "CNI_CONTAINERID not set"
    ELSE IF env.Command # "VERSION" /\ env.NetNS = ""
    THEN "CNI_NETNS not set"
    ELSE IF env.Command # "VERSION" /\ env.IfName = <<>>
    THEN "CNI_IFNAME not set"
    ELSE ""

\* the documents written to stdout
ErrorDoc(code, msg, cniVersion) ==
    [kind |-> "error", code |-> code, msg |-> msg,
     cniVersion |-> IF cniVersion = "" THEN "1.1.0" ELSE cniVersion,
     interface |-> <<>>, sandbox |-> "",
     address |-> NilIP, ones |-> 0, versions |-> {}]

VersionDoc ==
    [kind |-> "version", code |-> 0, msg |-> "", cniVersion |-> "1.1.0",
     interface |-> <<>>, sandbox |-> "",
     address |-> NilIP, ones |-> 0, versions |-> {"0.4.0", "1.0.0", "1.1.0"}]

\* the result of ADD and CHECK: the container interface (name, sandbox) and
\* the address with its prefix length
ResultDoc(cniVersion, ifName, netNS, ip, ones) ==
    [kind |-> "result", code |-> 0, msg |-> "", cniVersion |-> cniVersion,
     interface |-> ifName, sandbox |-> netNS,
     address |-> ip, ones |-> ones, versions |-> {}]

\* cmdCheck: a fixed result, 10.0.0.10/24
CheckDoc(cniVersion, ifName, netNS) ==
    ResultDoc(cniVersion, ifName, netNS, <<10, 0, 0, 10>>, 24)

\* ------------------------------------------------------------------ state
VARIABLES
    pool,     \* the IpPool object of a caller of package pkg (NoPool: none)
    last,     \* the last call on pool and what it returned
    run,      \* what the AllocateIP calls returned, while nothing else was
              \* called on pool since NewIpPool
    fresh,    \* TRUE while only AllocateIP was called since NewIpPool
    files,    \* the pool files on disk
    dirs,     \* the directories on disk
    links,    \* the links of the kernel
    proc,     \* the running plugin processes: position, inputs, locals
    out       \* the invocation that ended last: inputs, stdout, exit status

vars == <<pool, last, run, fresh, files, dirs, links, proc, out>>

NumProcs == 2
Procs == 1..NumProcs

PoolDir == <<NameStr("p")>>

\* the arguments the calls on package pkg are explored with
PoolNames == {NameStr("net0"), EmptyStr}
PoolCidrs == {CidrStr(NetA, 0, 1), CidrStr(NetA, 0, 2), CidrStr(NetA, 0, 3),
              CidrStr(NetA, 0, 24), IpStr(NetA, 0)}
PoolPaths == {PoolDir}
ReleaseArgs == {NilIP} \cup {NetA \o <<h>> : h \in 0..(MaxMarked + 1)}
                       \cup {NetA \o <<255>>, NetB \o <<1>>, NetB \o <<2>>}

\* the invocations the plugin is explored with
CidA1 == <<"a", "a", "a", "a", "a", "1">>
CidA2 == <<"a", "a", "a", "a", "a", "2">>
CidB == <<"b", "b", "b", "b", "b", "1">>
CidShort == <<"c", "1">>

ConfigDoc(subnet, gateway) ==
    [ok |-> TRUE, cniVersion |-> "1.1.0", bridge |-> <<>>,
     subnet |-> subnet, gateway |-> gateway, mtu |-> 0]

BadDoc == [ConfigDoc(EmptyStr, EmptyStr) EXCEPT !.ok = FALSE]

DocumentedDoc == ConfigDoc(CidrStr(NetA, 0, 24), IpStr(NetA, 1))
CidrGatewayDoc == ConfigDoc(CidrStr(NetA, 0, 24), CidrStr(NetA, 1, 24))
NamedSubnetDoc == ConfigDoc(NameStr("net0"), CidrStr(NetA, 1, 3))

Invocation(cmd, cid, netns, ifname, path, doc) ==
    [Command |-> cmd, ContainerID |-> cid, NetNS |-> netns, IfName |-> ifname,
     Path |-> path, stdin |-> doc]

Invocations ==
    {Invocation("ADD", cid, "/ns", <<"eth0">>, PoolDir, CidrGatewayDoc) :
        cid \in {CidA1, CidA2, CidB, CidShort}}
    \cup {Invocation("ADD", cid, "/ns", <<"eth0">>, PoolDir, NamedSubnetDoc) :
        cid \in {CidA1, CidB}}
    \cup {Invocation("ADD", CidA1, "/ns", <<"eth0">>, PoolDir, DocumentedDoc),
          Invocation("ADD", CidA1, "/ns", <<"eth0">>, <<>>, DocumentedDoc),
          Invocation("ADD", CidA1, "/ns", <<"eth0">>, PoolDir, BadDoc),
          Invocation("ADD", <<>>, "/ns", <<"eth0">>, PoolDir, DocumentedDoc),
          Invocation("VERSION", <<>>, "", <<>>, <<>>, BadDoc),
          Invocation("", <<>>, "", <<>>, <<>>, BadDoc),
          Invocation("FOO", <<>>, "", <<>>, <<>>, BadDoc),
          Invocation("FOO", CidA1, "/ns", <<"eth0">>, PoolDir, BadDoc)}
    \cup {Invocation(cmd, CidA1, "/ns", <<"eth0">>, PoolDir, DocumentedDoc) :
            cmd \in {"DEL", "CHECK", "FOO"}}

\* onNew: the call was the first one on a newly constructed object
NoCall ==
    [op |-> "none", err |-> "", ip |-> NilIP, idx |-> -1, arg |-> NilIP,
     onNew |-> FALSE]

NoInvocation == Invocation("", <<>>, "", <<>>, <<>>, BadDoc)

\* a process slot with nothing running: exit is -1 while there is no status
IdleProc ==
    [pc |-> "idle", inv |-> NoInvocation, ipPool |-> NoPool, saveErr |-> "",
     bridge |-> NoLink, containerVeth |-> NoLink, peerVeth |-> NoLink,
     stdout |-> <<>>, exit |-> -1]

\* the bridge an earlier run or the administrator may have left
HostBridge == [NewLink(DefaultBridge, "bridge", DEFAULT_MTU, NoLink) EXCEPT !.up = TRUE]

Init ==
    /\ pool = NoPool
    /\ last = NoCall
    /\ run = <<>>
    /\ fresh = FALSE
    /\ files = <<>>
    /\ dirs \in {{<<>>}, {<<>>, PoolDir, PoolDir \o <<IpStr(NetA, 0)>>}}
    /\ links \in {<<>>, <<HostBridge>>}
    /\ proc = [p \in Procs |-> IdleProc]
    /\ out = [inv |-> NoInvocation, stdout |-> <<>>, exit |-> -1]

\* ------------------------------------------------ calls on package pkg
CallNewIpPool(name, cidr, path) ==
    LET r == NewIpPool(name, cidr, path)
    IN  /\ pool' = r.pool
        /\ dirs' = IF r.mkdir THEN MkdirAll(dirs, path) ELSE dirs
        /\ last' = [NoCall EXCEPT !.op = "NewIpPool", !.err = r.status]
        /\ run' = <<>>
        /\ fresh' = (r.status = "ok")
        /\ UNCHANGED <<files, links, proc, out>>

CallAllocateIP ==
    /\ pool # NoPool
    /\ \/ Cardinality(pool.Allocation.set) < MaxMarked
       \/ Cardinality(pool.Allocation.set) = pool.TotalIps
    /\ LET r == AllocateIP(pool)
       IN  /\ pool' = r.pool
           /\ last' = [NoCall EXCEPT !.op = "AllocateIP", !.err = r.err,
                                     !.ip = r.ip, !.idx = r.idx]
           /\ run' = IF fresh /\ Len(run) <= MaxMarked
                     THEN Append(run, [err |-> r.err, ip |-> r.ip])
                     ELSE run
    /\ UNCHANGED <<fresh, files, dirs, links, proc, out>>

CallReleaseIP(ip) ==
    /\ pool # NoPool
    /\ LET r == ReleaseIP(pool, ip)
       IN  /\ pool' = r.pool
           /\ last' = [NoCall EXCEPT !.op = "ReleaseIP", !.err = r.err, !.arg = ip]
    /\ run' = <<>>
    /\ fresh' = FALSE
    /\ UNCHANGED <<files, dirs, links, proc, out>>

CallSave ==
    /\ pool # NoPool
    /\ LET r == Save(pool, files, dirs)
       IN  /\ files' = r.files
           /\ last' = [NoCall EXCEPT !.op = "Save", !.err = r.err]
    /\ run' = <<>>
    /\ fresh' = FALSE
    /\ UNCHANGED <<pool, dirs, links, proc, out>>

CallLoad ==
    /\ pool # NoPool
    /\ LET r == Load(pool, files)
       IN  /\ pool' = r.pool
           /\ last' = [NoCall EXCEPT !.op = "Load", !.err = r.err,
                                     !.onNew = (last.op = "NewIpPool")]
    /\ run' = <<>>
    /\ fresh' = FALSE
    /\ UNCHANGED <<files, dirs, links, proc, out>>

PoolNext ==
    \/ \E name \in PoolNames, cidr \in PoolCidrs, path \in PoolPaths :
          CallNewIpPool(name, cidr, path)
    \/ CallAllocateIP
    \/ \E ip \in ReleaseArgs : CallReleaseIP(ip)
    \/ CallSave
    \/ CallLoad

\* the package on its own: calls on one pool object
PoolSpec == Init /\ [][PoolNext]_vars

\* ------------------------------------------------------ the plugin (main)
Env(pr) == getEnvironment(pr.inv)
Config(pr) == parseConfig(pr.inv.stdin)

\* the process ends: what it wrote to stdout and its exit status
Exit(pr, docs, status) ==
    [pr EXCEPT !.pc = "exited", !.stdout = docs, !.exit = status]

\* cmdAdd returned an error: main sends the error document and exits 1
AddFailed(pr) ==
    Exit(pr, <<ErrorDoc(7, "Failed to add network", Config(pr).CNIVersion)>>, 1)

\* log.Fatalf: message on stderr, exit status 1, nothing on stdout
Fatal(pr) == Exit(pr, <<>>, 1)

\* a run-time panic: trace on stderr, exit status 2
Panic(pr) == Exit(pr, <<>>, 2)

\* where main takes an invocation
Route(inv) ==
    IF validateEnvironment(getEnvironment(inv)) # "" THEN "bad environment"
    ELSE IF inv.Command = "VERSION" THEN "VERSION"
    ELSE IF ~parseConfig(inv.stdin).ok THEN "bad configuration"
    ELSE IF inv.Command \in {"ADD", "DEL", "CHECK"} THEN inv.Command
    ELSE "unknown command"

Started(inv) == [IdleProc EXCEPT !.inv = inv]

Runnable(p) == proc[p].pc = "idle"

\* what is kept of a process that has ended
Ended(pr) == [inv |-> pr.inv, stdout |-> pr.stdout, exit |-> pr.exit]

\* process p goes on as pr, or has ended as pr: an ended process leaves its
\* slot and is remembered in out
Becomes(p, pr) ==
    /\ proc' = [proc EXCEPT ![p] = IF pr.pc = "exited" THEN IdleProc ELSE pr]
    /\ out' = IF pr.pc = "exited" THEN Ended(pr) ELSE out

\* main ends before any command handler runs
mainRejects(p, inv) ==
    /\ Runnable(p)
    /\ Route(inv) \in {"bad environment", "bad configuration", "unknown command"}
    /\ Becomes(p,
          IF Route(inv) = "bad environment"
          THEN Exit(Started(inv), <<ErrorDoc(4, "Invalid environment variables", "")>>, 1)
          ELSE IF Route(inv) = "bad configuration"
          THEN Exit(Started(inv), <<ErrorDoc(7, "Invalid network configuration", "")>>, 1)
          ELSE Exit(Started(inv),
                    <<ErrorDoc(4, "Unknown command", parseConfig(inv.stdin).CNIVersion)>>, 1))
    /\ UNCHANGED <<pool, last, run, fresh, files, dirs, links>>

cmdVersion(p, inv) ==
    /\ Runnable(p)
    /\ Route(inv) = "VERSION"
    /\ Becomes(p, Exit(Started(inv), <<VersionDoc>>, 0))
    /\ UNCHANGED <<pool, last, run, fresh, files, dirs, links>>

\* cmdDel does nothing and returns nil
cmdDel(p, inv) ==
    /\ Runnable(p)
    /\ Route(inv) = "DEL"
    /\ Becomes(p, Exit(Started(inv), <<>>, 0))
    /\ UNCHANGED <<pool, last, run, fresh, files, dirs, links>>

\* cmdCheck starting like cmdAdd: the pool directory is made
cmdCheckMakesPoolDir(p, inv) ==
    /\ Runnable(p)
    /\ Route(inv) = "CHECK"
    /\ Becomes(p, Exit(Started(inv), <<CheckDoc(parseConfig(inv.stdin).CNIVersion,
                                                inv.IfName, inv.NetNS)>>, 0))
    /\ dirs' = MkdirAll(dirs, inv.Path)
    /\ UNCHANGED <<pool, last, run, fresh, files, links>>

\* cmdCheck: prints a fixed result and returns nil
cmdCheck(p, inv) ==
    /\ Runnable(p)
    /\ Route(inv) = "CHECK"
    /\ Becomes(p, Exit(Started(inv), <<CheckDoc(parseConfig(inv.stdin).CNIVersion,
                                           inv.IfName, inv.NetNS)>>, 0))
    /\ UNCHANGED <<pool, last, run, fresh, files, dirs, links>>

\* cmdAdd, first statement: pkg.NewIpPool(config.Subnet, config.Gateway, env.Path)
cmdAddNewIpPool(p, inv) ==
    /\ Runnable(p)
    /\ Route(inv) = "ADD"
    /\ LET pr == Started(inv)
           r == NewIpPool(Config(pr).Subnet, Config(pr).Gateway, Env(pr).Path)
       IN  /\ dirs' = IF r.mkdir THEN MkdirAll(dirs, Env(pr).Path) ELSE dirs
           /\ Becomes(p, IF r.status = "fatal" THEN Fatal(pr)
                         ELSE IF r.status = "panic" THEN Panic(pr)
                         ELSE [pr EXCEPT !.pc = "Save", !.ipPool = r.pool])
    /\ UNCHANGED <<pool, last, run, fresh, files, links>>

\* ipPool.Save(): the error it returns is dropped
cmdAddSave(p) ==
    /\ proc[p].pc = "Save"
    /\ LET r == Save(proc[p].ipPool, files, dirs)
       IN  /\ files' = r.files
           /\ Becomes(p, [proc[p] EXCEPT !.pc = "Bridge", !.saveErr = r.err])
    /\ UNCHANGED <<pool, last, run, fresh, dirs, links>>

\* the bridge step creating the bridge whether or not one exists: LinkAdd
\* refuses a name that is in use
cmdAddBridgeAlwaysCreates(p) ==
    /\ proc[p].pc = "Bridge"
    /\ LET config == Config(proc[p])
       IN  IF LinkByName(links, config.Bridge) # NoLink
           THEN /\ Becomes(p, AddFailed(proc[p]))
                /\ UNCHANGED links
           ELSE /\ links' = Append(links, [NewLink(config.Bridge, "bridge",
                                                   config.MTU, NoLink)
                                              EXCEPT !.up = TRUE])
                /\ Becomes(p, [proc[p] EXCEPT !.pc = "LinkAdd",
                                               !.bridge = Len(links) + 1])
    /\ UNCHANGED <<pool, last, run, fresh, files, dirs>>

\* the bridge step: LinkByName returns an error for a missing link and cmdAdd
\* returns it; the branch that creates the bridge sits inside err != nil after
\* that return and is never run
cmdAddBridge(p) ==
    /\ proc[p].pc = "Bridge"
    /\ LET bridge == LinkByName(links, Config(proc[p]).Bridge)
       IN  Becomes(p, IF bridge = NoLink THEN AddFailed(proc[p])
                      ELSE [proc[p] EXCEPT !.pc = "LinkAdd", !.bridge = bridge])
    /\ UNCHANGED <<pool, last, run, fresh, files, dirs, links>>

PeerName(containerID) == <<"veth-">> \o SubSeq(containerID, 1, 5)

\* containerID[:5] and netlink.LinkAdd(veth)
cmdAddLinkAdd(p) ==
    /\ proc[p].pc = "LinkAdd"
    /\ LET pr == proc[p]
           r == LinkAddVeth(links, Env(pr).IfName, PeerName(Env(pr).ContainerID),
                            Config(pr).MTU)
       IN  IF Len(Env(pr).ContainerID) < 5
           THEN /\ Becomes(p, Panic(pr))
                /\ UNCHANGED links
           ELSE /\ links' = r.links
                /\ Becomes(p, IF r.err # "" THEN AddFailed(pr)
                              ELSE [pr EXCEPT !.pc = "LinkByName"])
    /\ UNCHANGED <<pool, last, run, fresh, files, dirs>>

\* containerVeth, err := netlink.LinkByName(env.IfName): err is overwritten
cmdAddLinkByName(p) ==
    /\ proc[p].pc = "LinkByName"
    /\ Becomes(p, [proc[p] EXCEPT
                      !.pc = "LinkSetNsPid",
                      !.containerVeth = LinkByName(links, Env(proc[p]).IfName)])
    /\ UNCHANGED <<pool, last, run, fresh, files, dirs, links>>

\* the namespace move with its error dropped: cmdAdd goes on
cmdAddLinkSetNsPidIgnoresError(p, found) ==
    /\ proc[p].pc = "LinkSetNsPid"
    /\ LET pr == proc[p]
           r == LinkSetNsPid(links, pr.containerVeth, Env(pr).PID, found)
       IN  /\ links' = r.links
           /\ Becomes(p, IF r.err = "panic" THEN Panic(pr)
                         ELSE [pr EXCEPT !.pc = "LinkByNamePeer"])
    /\ UNCHANGED <<pool, last, run, fresh, files, dirs>>

\* netlink.LinkSetNsPid(containerVeth, env.PID)
cmdAddLinkSetNsPid(p, found) ==
    /\ proc[p].pc = "LinkSetNsPid"
    /\ LET pr == proc[p]
           r == LinkSetNsPid(links, pr.containerVeth, Env(pr).PID, found)
       IN  /\ links' = r.links
           /\ Becomes(p, IF r.err = "panic" THEN Panic(pr)
                         ELSE IF r.err # "" THEN AddFailed(pr)
                         ELSE [pr EXCEPT !.pc = "LinkByNamePeer"])
    /\ UNCHANGED <<pool, last, run, fresh, files, dirs>>

cmdAddLinkByNamePeer(p) ==
    /\ proc[p].pc = "LinkByNamePeer"
    /\ LET peerVeth == LinkByName(links, PeerName(Env(proc[p]).ContainerID))
       IN  Becomes(p, IF peerVeth = NoLink THEN AddFailed(proc[p])
                      ELSE [proc[p] EXCEPT !.pc = "LinkSetMaster", !.peerVeth = peerVeth])
    /\ UNCHANGED <<pool, last, run, fresh, files, dirs, links>>

cmdAddLinkSetMaster(p) ==
    /\ proc[p].pc = "LinkSetMaster"
    /\ LET pr == proc[p]
           r == LinkSetMaster(links, pr.peerVeth, pr.bridge)
       IN  /\ links' = r.links
           /\ Becomes(p, IF r.err # "" THEN AddFailed(pr)
                         ELSE [pr EXCEPT !.pc = "LinkSetUp"])
    /\ UNCHANGED <<pool, last, run, fresh, files, dirs>>

\* the rest of cmdAdd, from the first LinkSetUp to the result: the links and
\* the process after it
AddRest(pr, lk, fs) ==
    LET config == Config(pr)
        up1 == LinkSetUp(lk, pr.containerVeth)
        up2 == LinkSetUp(up1.links, pr.peerVeth)
        ipNetwork == ParseCIDR(config.Subnet)
        gatewayIP == ParseIP(config.Gateway)
        gw == AddrAdd(up2.links, pr.bridge,
                      [ip |-> gatewayIP, ones |-> ipNetwork.ones])
        ld == Load(pr.ipPool, fs)
        al == AllocateIP(ld.pool)
        ad == AddrAdd(gw.links, pr.containerVeth,
                      [ip |-> al.ip, ones |-> ipNetwork.ones])
    IN  IF up1.err # "" THEN [links |-> lk, proc |-> AddFailed(pr)]
        ELSE IF up2.err # "" THEN [links |-> up1.links, proc |-> AddFailed(pr)]
        ELSE IF ~ipNetwork.ok \/ gatewayIP = NilIP
        THEN [links |-> up2.links, proc |-> AddFailed(pr)]
        ELSE IF gw.err # "" THEN [links |-> up2.links, proc |-> AddFailed(pr)]
        ELSE IF ld.err # "" THEN [links |-> gw.links, proc |-> AddFailed(pr)]
        ELSE IF al.err # ""
        THEN [links |-> gw.links, proc |-> AddFailed([pr EXCEPT !.ipPool = al.pool])]
        ELSE IF ad.err # ""
        THEN [links |-> gw.links, proc |-> AddFailed([pr EXCEPT !.ipPool = al.pool])]
        ELSE [links |-> ad.links,
              proc |-> Exit([pr EXCEPT !.ipPool = al.pool],
                            <<ResultDoc(config.CNIVersion, Env(pr).IfName,
                                         Env(pr).NetNS, al.ip, ipNetwork.ones)>>, 0)]

cmdAddRest(p) ==
    /\ proc[p].pc = "LinkSetUp"
    /\ LET r == AddRest(proc[p], links, files)
       IN  /\ links' = r.links
           /\ Becomes(p, r.proc)
    /\ UNCHANGED <<pool, last, run, fresh, files, dirs>>

PluginNext ==
    \E p \in Procs :
        \/ \E inv \in Invocations :
              \/ mainRejects(p, inv)
              \/ cmdVersion(p, inv)
              \/ cmdDel(p, inv)
              \/ cmdCheck(p, inv)
              \/ cmdAddNewIpPool(p, inv)
        \/ cmdAddSave(p)
        \/ cmdAddBridge(p)
        \/ cmdAddLinkAdd(p)
        \/ cmdAddLinkByName(p)
        \/ \E found \in BOOLEAN : cmdAddLinkSetNsPid(p, found)
        \/ cmdAddLinkByNamePeer(p)
        \/ cmdAddLinkSetMaster(p)
        \/ cmdAddRest(p)

\* the plugin on its own: invocations of the binary
PluginSpec == Init /\ [][PluginNext]_vars

Next == PoolNext \/ PluginNext

Spec == Init /\ [][Next]_vars

\* ------------------------------------------------------------ the claims
\* What no run reaches. AllocateIP builds the address from
\* net.ParseIP(CidrRange), and CidrRange is the CIDR text NewIpPool accepted,
\* which ParseIP rejects: no call returns an address.
AllocateIPReturnsNoAddress ==
    last.op = "AllocateIP" => (last.err # "" /\ last.ip = NilIP)

\* cmdAdd hands config.Gateway to NewIpPool as the CIDR range and later to
\* net.ParseIP as the gateway address: an ADD that got past NewIpPool has a
\* gateway ParseIP rejects, and so returns before Load and AllocateIP.
AddNeverReachesLoad ==
    \A p \in Procs :
        proc[p].pc # "idle" => ParseIP(Config(proc[p]).Gateway) = NilIP

\* no ADD invocation ends with status 0
AddNeverSucceeds == out.inv.Command = "ADD" => out.exit # 0

\* the plugin never writes a pool file that marks a slot
PluginFilesAllFree == \A f \in DOMAIN files : files[f].allocation.set = {}

\* no run of the plugin gives the bridge an address: the gateway step of
\* cmdAdd comes after net.ParseIP(config.Gateway), which no ADD passes
BridgeNeverGetsAddress ==
    \A i \in 1..Len(links) : links[i].kind = "bridge" => links[i].addrs = {}

\* cmdDel is an empty function: a DEL leaves every link and file as it was,
\* the links an ADD left behind included
DelChangesNothing ==
    [][\A p \in Procs, inv \in Invocations :
          cmdDel(p, inv) => (links' = links /\ files' = files /\ dirs' = dirs)]_vars

\* C4: an ADD for a network whose pool file exists keeps every mark of the
\* file, and writes a fresh all-free pool only when the network has no pool
\* file yet.
C4_AddKeepsPersistedPool ==
    [][/\ \A f \in DOMAIN files :
             /\ f \in DOMAIN files'
             /\ files[f].allocation.set \subseteq files'[f].allocation.set
       /\ \A p \in Procs :
             cmdAddSave(p) =>
                 (PoolFile(proc[p].ipPool.Path, proc[p].ipPool.PoolName)
                      \in DOMAIN files
                  => proc'[p].saveErr # "")]_vars

PoolExhausted == {"no more IPs", "no available IPs"}

\* C11: for every reachable pool state, a Save that succeeds followed by a
\* Load into a newly constructed object of the same name and path gives the
\* bitmap, LastAllocatedIP and TotalIps of the pool that was saved.
C11_SaveLoadRoundTrip ==
    pool # NoPool =>
        LET s == Save(pool, files, dirs)
        IN  s.err = "" =>
                \A cidr \in PoolCidrs :
                    LET n == NewIpPool(pool.PoolName, cidr, pool.Path)
                        l == Load(n.pool, s.files)
                    IN  n.status = "ok" =>
                            /\ l.err = ""
                            /\ l.pool.Allocation = pool.Allocation
                            /\ l.pool.LastAllocatedIP = pool.LastAllocatedIP
                            /\ l.pool.TotalIps = pool.TotalIps

\* a Load on a new object has brought back marks and a moved LastAllocatedIP
C11_LoadedIntoNewObject ==
    /\ last.op = "Load" /\ last.onNew /\ last.err = ""
    /\ pool.Allocation.set # {}
    /\ pool.LastAllocatedIP > 0
    /\ Save(pool, files, dirs).err = ""

\* C12: when ADD runs and no link has the configured bridge name, the bridge
\* step creates a bridge link with the configured MTU, brings it up, and ADD
\* goes on to the paired-link step.
C12_AbsentBridgeIsCreated ==
    [][\A p \in Procs :
          (cmdAddBridge(p) /\ LinkByName(links, Config(proc[p]).Bridge) = NoLink) =>
              /\ \E i \in 1..Len(links') :
                    /\ links'[i].name = Config(proc[p]).Bridge
                    /\ links'[i].kind = "bridge"
                    /\ links'[i].mtu = Config(proc[p]).MTU
                    /\ links'[i].up
              /\ proc'[p].pc = "LinkAdd"]_vars

\* C13: when a link with the configured bridge name exists, the bridge step
\* of ADD returns that link without error and changes no link; every run of
\* the step returns the same link.
C13_ExistingBridgeIsReturned ==
    [][\A p \in Procs :
          (cmdAddBridge(p) /\ LinkByName(links, Config(proc[p]).Bridge) # NoLink) =>
              /\ links' = links
              /\ proc'[p].pc = "LinkAdd"
              /\ proc'[p].bridge = LinkByName(links, Config(proc[p]).Bridge)
              /\ \A q \in Procs :
                    proc[q].bridge # NoLink => proc'[p].bridge = proc[q].bridge]_vars

\* two invocations have run the bridge step on the bridge that was there
C13_BridgeStepRunTwice ==
    \E p, q \in Procs :
        /\ p # q
        /\ proc[p].pc = "LinkAdd" /\ proc[q].pc = "LinkAdd"
        /\ proc[p].bridge # NoLink /\ proc[p].bridge = proc[q].bridge
        /\ links[proc[p].bridge] = HostBridge

\* C15: the steps of one ADD run in order, each after the one before it
\* returned without error: a process past the namespace move has its
\* container-side link out of the host namespace, a process at the bring-up
\* has its host peer attached to the bridge, no link carries an address
\* before it was moved or is up before it was attached, and an ADD whose
\* namespace move fails ends with an error at once, with no link and no
\* pool file changed.
C15_StepsInOrder ==
    [][/\ \A p \in Procs :
             LET pr == proc'[p]
             IN  /\ pr.pc \in {"LinkByNamePeer", "LinkSetMaster", "LinkSetUp"} =>
                       links'[pr.containerVeth].ns = NsOfPid(Env(pr).PID)
                 /\ pr.pc = "LinkSetUp" =>
                       links'[pr.peerVeth].master = pr.bridge
       /\ \A i \in 1..Len(links') :
             links'[i].kind = "veth" =>
                 /\ links'[i].addrs # {} => links'[i].ns # HostNs
                 /\ links'[i].up => links'[i].master # NoLink
       /\ \A p \in Procs, found \in BOOLEAN :
             (/\ cmdAddLinkSetNsPid(p, found)
              /\ LinkSetNsPid(links, proc[p].containerVeth,
                              Env(proc[p]).PID, found).err # "") =>
                 /\ proc'[p] = IdleProc
                 /\ out'.inv = proc[p].inv
                 /\ out'.exit # 0
                 /\ links' = links
                 /\ files' = files]_vars

\* one ADD is past the move and the attachment, and another has ended with
\* an error at the move, its link still in the host namespace
C15_MoveFailedAndMoveDone ==
    /\ \E p \in Procs :
          /\ proc[p].pc = "LinkSetUp"
          /\ links[proc[p].containerVeth].ns # HostNs
          /\ links[proc[p].peerVeth].master = proc[p].bridge
    /\ out.inv.Command = "ADD" /\ out.exit = 1
    /\ \E i \in 1..Len(links) :
          /\ links[i].kind = "veth"
          /\ links[i].ns = HostNs
          /\ links[i].name = out.inv.IfName

\* C17: a CHECK invocation changes no pool (in memory or on disk), no
\* directory and no link.
C17_CheckChangesNothing ==
    [][\A p \in Procs, inv \in Invocations :
          (inv.Command = "CHECK" /\ (cmdCheck(p, inv) \/ mainRejects(p, inv))) =>
              /\ files' = files
              /\ dirs' = dirs
              /\ links' = links
              /\ pool' = pool]_vars

\* a CHECK has ended on a host that holds a pool file and a veth pair
C17_CheckedWithStatePresent ==
    /\ out.inv.Command = "CHECK" /\ out.exit = 0
    /\ DOMAIN files # {}
    /\ \E i \in 1..Len(links) : links[i].kind = "veth"

\* C18: CHECK returns an error when the container interface does not exist,
\* and returns a success result only when the interface it reports exists
\* and carries the address it reports.
C18_CheckMirrorsState ==
    [][\A p \in Procs, inv \in Invocations :
          cmdCheck(p, inv) =>
              /\ (\A i \in 1..Len(links) : links[i].name # inv.IfName)
                     => out'.exit # 0
              /\ out'.exit = 0 =>
                     \E i \in 1..Len(links) :
                         /\ links[i].name = out'.stdout[1].interface
                         /\ [ip |-> out'.stdout[1].address,
                             ones |-> out'.stdout[1].ones] \in links[i].addrs]_vars

\* C19: a VERSION invocation with no other variable and no configuration
\* succeeds, prints the supported versions 0.4.0, 1.0.0 and 1.1.0, and
\* changes no pool, directory or link.
C19_VersionSucceeds ==
    [][\A p \in Procs, inv \in Invocations :
          (inv.Command = "VERSION" /\ (cmdVersion(p, inv) \/ mainRejects(p, inv))) =>
              /\ out'.exit = 0
              /\ Len(out'.stdout) = 1
              /\ out'.stdout[1].kind = "version"
              /\ out'.stdout[1].versions = {"0.4.0", "1.0.0", "1.1.0"}
              /\ files' = files /\ dirs' = dirs /\ links' = links
              /\ pool' = pool]_vars

\* a VERSION with nothing else set has ended with status 0 on a host that
\* holds a pool file and a veth pair
C19_VersionRanBare ==
    /\ out.inv.Command = "VERSION" /\ out.exit = 0
    /\ out.inv.ContainerID = <<>> /\ out.inv.NetNS = "" /\ out.inv.IfName = <<>>
    /\ ~out.inv.stdin.ok
    /\ out.stdout = <<VersionDoc>>
    /\ DOMAIN files # {}
    /\ \E i \in 1..Len(links) : links[i].kind = "veth"

\* C20: an invocation whose command is none of ADD, DEL, CHECK, VERSION ends
\* with the unknown-command error and a non-zero status, whatever the other
\* variables and the configuration hold, and changes nothing.
C20_UnknownCommandError ==
    [][\A p \in Procs, inv \in Invocations :
          (/\ inv.Command \notin {"ADD", "DEL", "CHECK", "VERSION"}
           /\ mainRejects(p, inv)) =>
              /\ out'.exit # 0
              /\ Len(out'.stdout) = 1
              /\ out'.stdout[1].kind = "error"
              /\ out'.stdout[1].msg = "Unknown command"
              /\ files' = files /\ dirs' = dirs /\ links' = links
              /\ pool' = pool]_vars

\* C21: in every invocation a failing operation makes the invocation write
\* exactly one error document and exit with a non-zero status; no failed
\* operation is ignored (a failed Save included).
C21_FailureGivesOneErrorDocument ==
    [][/\ out'.exit \notin {-1, 0} =>
             /\ Len(out'.stdout) = 1
             /\ out'.stdout[1].kind = "error"
       /\ \A p \in Procs :
             (cmdAddSave(p) /\ Save(proc[p].ipPool, files, dirs).err # "") =>
                 /\ proc'[p] = IdleProc
                 /\ out'.inv = proc[p].inv
                 /\ out'.exit # 0]_vars

\* the slot AllocateIP takes, whatever it returns: the highest free slot at
\* or below LastAllocatedIP, which stays; else the lowest free slot above
\* it, which LastAllocatedIP moves to
TakesSlotByPolicy ==
    LET k == pool.LastAllocatedIP
        j == last'.idx
    IN  /\ j >= 0 /\ j < pool.TotalIps
        /\ j \notin pool.Allocation.set
        /\ pool'.Allocation.set = pool.Allocation.set \cup {j}
        /\ IF \E i \in 0..k : i \notin pool.Allocation.set
           THEN /\ j <= k
                /\ \A i \in (j + 1)..k : i \in pool.Allocation.set
                /\ pool'.LastAllocatedIP = k
           ELSE /\ j > k
                /\ \A i \in (k + 1)..(j - 1) : i \in pool.Allocation.set
                /\ pool'.LastAllocatedIP = j

SomeSlotFree == Cardinality(pool.Allocation.set) < pool.TotalIps

AllocateIPTakesSlotByPolicy ==
    [][(CallAllocateIP /\ SomeSlotFree) => TakesSlotByPolicy]_vars

\* C22: AllocateIP with LastAllocatedIP = k returns the highest free slot
\* j <= k when there is one and leaves LastAllocatedIP at k; otherwise it
\* returns the lowest free slot above k and sets LastAllocatedIP to it.
C22_ReverseThenForward ==
    [][(CallAllocateIP /\ SomeSlotFree) =>
          (last'.err = "" /\ last'.ip # NilIP /\ TakesSlotByPolicy)]_vars

\* what stands for "no slot allocated yet": -1 (the README) or the value
\* LastAllocatedIP has in a new pool
NoneYet == {-1, 0}

\* C23: when ReleaseIP frees the slot LastAllocatedIP names, LastAllocatedIP
\* becomes the highest slot below it that is still allocated, or the "none"
\* value when no slot is left allocated; freeing another slot leaves it.
C23_ReleaseWalksHighWaterDown ==
    [][\A ip \in ReleaseArgs :
          (CallReleaseIP(ip) /\ last'.err = "") =>
              LET k == pool.LastAllocatedIP
                  lower == {i \in 0..(k - 1) : i \in pool'.Allocation.set}
              IN  IF ip[4] - 1 # k THEN pool'.LastAllocatedIP = k
                  ELSE IF lower # {} THEN pool'.LastAllocatedIP = Max(lower)
                  ELSE IF pool'.Allocation.set = {}
                  THEN pool'.LastAllocatedIP \in NoneYet
                  ELSE TRUE]_vars

\* C25: in every state of a constructed pool the bitmap is TotalIps long,
\* LastAllocatedIP is an index of the bitmap, no slot above it is allocated,
\* and if any slot is allocated the slot it names is.
C25_PoolInvariants ==
    pool # NoPool =>
        /\ pool.Allocation.len = pool.TotalIps
        /\ pool.LastAllocatedIP >= 0 /\ pool.LastAllocatedIP < pool.TotalIps
        /\ \A i \in pool.Allocation.set :
              /\ i >= 0 /\ i < pool.TotalIps
              /\ i <= pool.LastAllocatedIP
        /\ pool.Allocation.set # {} => pool.LastAllocatedIP \in pool.Allocation.set

\* a release of the slot LastAllocatedIP named has walked it down to a
\* slot that is still allocated
C25_AfterWalkDown ==
    /\ last.op = "ReleaseIP" /\ last.err = ""
    /\ last.arg[4] - 1 > pool.LastAllocatedIP
    /\ pool.LastAllocatedIP > 0
    /\ Cardinality(pool.Allocation.set) >= 2

\* C26: when AllocateIP returns an error the bitmap and LastAllocatedIP are
\* as before the call.
C26_FailedAllocateChangesNothing ==
    [][(CallAllocateIP /\ last'.err # "") => pool' = pool]_vars

\* C5: from a freshly constructed pool exactly TotalIps consecutive
\* AllocateIP calls succeed with pairwise distinct addresses, and the call
\* after them fails with the pool-exhausted error.
C5_FreshPoolAllocatesExactlyTotal ==
    fresh =>
        \A k \in 1..Len(run) :
            /\ k <= pool.TotalIps =>
                  /\ run[k].err = ""
                  /\ \A j \in 1..(k - 1) : run[j].ip # run[k].ip
            /\ k = pool.TotalIps + 1 => run[k].err \in PoolExhausted

\* C6: a pool built from a CIDR with h = 32 - prefix host bits has
\* TotalIps = 2^h - 3 and an all-free bitmap of that length; 253 for
\* 10.0.0.0/24.
C6_TotalIsTwoToHostBitsMinusThree ==
    (last.op = "NewIpPool" /\ last.err = "ok") =>
        /\ pool.TotalIps = Pow2(32 - pool.CidrRange.ones) - 3
        /\ pool.Allocation = [len |-> pool.TotalIps, set |-> {}]
        /\ pool.CidrRange = CidrStr(NetA, 0, 24) => pool.TotalIps = 253

\* C8: slot 0 stands for host address .2: the first AllocateIP on a fresh
\* pool for 10.0.0.0/24 succeeds and returns 10.0.0.2.
C8_FirstAddressIsDotTwo ==
    (fresh /\ Len(run) >= 1 /\ pool.CidrRange = CidrStr(NetA, 0, 24)) =>
        /\ run[1].err = ""
        /\ run[1].ip = <<10, 0, 0, 2>>

\* C10: ReleaseIP succeeds only for an address that is allocated from this
\* pool (an address of the pool's network whose slot is marked); for any
\* other address it fails with the not-allocated error and leaves the bitmap
\* and LastAllocatedIP unchanged.
AllocatedFrom(p, ip) ==
    /\ Len(ip) = 4
    /\ SubSeq(ip, 1, 3) = p.CidrRange.net
    /\ ip[4] - 1 \in 0..(p.TotalIps - 1)
    /\ ip[4] - 1 \in p.Allocation.set

NotAllocated == {"out of range", "not allocated", "IP cannot be nil",
                 "not a valid IPv4 address"}

C10_ReleaseOnlyOfAllocated ==
    [][\A ip \in ReleaseArgs :
          CallReleaseIP(ip) =>
              /\ last'.err = "" => AllocatedFrom(pool, ip)
              /\ ~AllocatedFrom(pool, ip) =>
                    /\ last'.err \in NotAllocated
                    /\ pool' = pool]_vars

====
